---- MODULE Spec2Model ----
(***************************************************************************)
(* A model of src/Kalman/kalman.c: the filter and measurement structures,  *)
(* kalman_predict executed statement by statement, and kalman_correct.     *)
(*                                                                         *)
(* A matrix_t is a record [rows, cols, data] whose data is the flat,       *)
(* row-major backing buffer.  Entries are integers and arithmetic is       *)
(* exact: floating-point rounding is not modelled.  The fading factor is a *)
(* rational [num, den]; the model draws it from the unit fractions 1/d, so *)
(* that 1/lambda^2 is an integer and P stays integral.                     *)
(*                                                                         *)
(* The matrix primitives (matrix_init, matrix_mult, ...) live in the       *)
(* repository's matrix library, which is not part of src/; they are        *)
(* modelled from section 6 of the specification.                           *)
(***************************************************************************)
EXTENDS Integers, Sequences, FiniteSets

VARIABLES
    kf,      \* kalman_t: A, P, x, B, Q, u and the temporaries
    kfm,     \* kalman_measurement_t: H, R, z, K, S, y
    pc,      \* position of the single thread of control
    lambda,  \* kalman_predict's parameter / local `lambda`
    old,     \* history: what was called last, and kf / kfm at its entry
    ops,     \* history: the primitive calls made so far by the current call
    calls    \* number of calls the driver has made

vars == <<kf, kfm, pc, lambda, old, ops, calls>>

(***************************************************************************)
(* Bounds of the model.                                                    *)
(***************************************************************************)
MaxStates == 2
MaxInputs == 2
MaxMeasurements == 1
MaxDen == 2
MaxCalls == 2

(***************************************************************************)
(* Rationals, for the fading factor only.                                  *)
(***************************************************************************)
Rat(n, d) == [num |-> n, den |-> d]

RatOne == Rat(1, 1)

RatLess(p, q) == p.num * q.den < q.num * p.den

\* v * s for an integer v and a rational s whose product is integral
ScaleBy(v, s) == (v * s.num) \div s.den

(***************************************************************************)
(* Matrices over flat row-major buffers.                                   *)
(***************************************************************************)
RECURSIVE SumSeq(_)
SumSeq(s) == IF Len(s) = 0 THEN 0 ELSE Head(s) + SumSeq(Tail(s))

At(M, i, j) == M.data[(i - 1) * M.cols + j]

\* the row and the column of the idx-th cell of a buffer holding c columns
RowOf(idx, c) == ((idx - 1) \div c) + 1

ColOf(idx, c) == ((idx - 1) % c) + 1

\* sum over k of a[i,k] * b[k,j]
DotRowCol(a, b, i, j) == SumSeq([k \in 1..a.cols |-> At(a, i, k) * At(b, k, j)])

\* sum over k of a[i,k] * b[j,k]
DotRowRow(a, b, i, j) == SumSeq([k \in 1..a.cols |-> At(a, i, k) * At(b, j, k)])

matrix_init(rows, cols, buffer) == [rows |-> rows, cols |-> cols, data |-> buffer]

\* c = a * x
matrix_mult_rowvector(a, x, c) ==
    [c EXCEPT !.data = [idx \in 1..a.rows |-> DotRowCol(a, x, idx, 1)]]

\* b = a
matrix_copy(a, b) == [b EXCEPT !.data = a.data]

\* c = a * b
matrix_mult(a, b, c) ==
    [c EXCEPT !.data =
        [idx \in 1..(a.rows * b.cols) |->
            DotRowCol(a, b, RowOf(idx, b.cols), ColOf(idx, b.cols))]]

\* what matrix_mult leaves in its scratch vector: the column of b copied last
matrix_mult_aux(b, aux) ==
    [k \in 1..Len(aux) |-> IF b.cols > 0 /\ k <= b.rows THEN At(b, k, 1) ELSE aux[k]]

\* c = a * b'
matrix_mult_transb(a, b, c) ==
    [c EXCEPT !.data =
        [idx \in 1..(a.rows * b.rows) |->
            DotRowRow(a, b, RowOf(idx, b.rows), ColOf(idx, b.rows))]]

\* c = a * b' * scale
matrix_multscale_transb(a, b, scale, c) ==
    [c EXCEPT !.data =
        [idx \in 1..(a.rows * b.rows) |->
            ScaleBy(DotRowRow(a, b, RowOf(idx, b.rows), ColOf(idx, b.rows)), scale)]]

\* c += a * b'
matrix_multadd_transb(a, b, c) ==
    [c EXCEPT !.data =
        [idx \in 1..(a.rows * b.rows) |->
            c.data[idx] + DotRowRow(a, b, RowOf(idx, b.rows), ColOf(idx, b.rows))]]

\* b = a - b
matrix_sub_inplace_b(a, b) ==
    [b EXCEPT !.data = [idx \in 1..(b.rows * b.cols) |-> a.data[idx] - b.data[idx]]]

(***************************************************************************)
(* Initialization.                                                         *)
(***************************************************************************)
kalman_filter_initialize(num_states, num_inputs, A, x, B, u, P, Q, aux, predictedX, temp_P, temp_BQ) ==
    [A |-> matrix_init(num_states, num_states, A),
     P |-> matrix_init(num_states, num_states, P),
     x |-> matrix_init(num_states, 1, x),
     B |-> matrix_init(num_states, num_inputs, B),
     Q |-> matrix_init(num_inputs, num_inputs, Q),
     u |-> matrix_init(num_inputs, 1, u),
     temporary |->
        [aux |-> aux,
         predicted_x |-> matrix_init(num_states, 1, predictedX),
         P |-> matrix_init(num_states, num_states, temp_P),
         BQ |-> matrix_init(num_states, num_inputs, temp_BQ)]]

kalman_measurement_initialize(num_states, num_measurements, H, z, R, y, S, K) ==
    [H |-> matrix_init(num_measurements, num_states, H),
     R |-> matrix_init(num_measurements, num_measurements, R),
     z |-> matrix_init(num_measurements, 1, z),
     K |-> matrix_init(num_states, num_measurements, K),
     S |-> matrix_init(num_measurements, num_measurements, S),
     y |-> matrix_init(num_measurements, 1, y)]

(***************************************************************************)
(* kalman_predict.  Its body is a sequence of primitive calls; each call   *)
(* names the function and the local pointers it is given.                  *)
(***************************************************************************)
\* the local pointers of kalman_predict
Deref(k, p) ==
    CASE p = "A" -> k.A
      [] p = "B" -> k.B
      [] p = "P" -> k.P
      [] p = "x" -> k.x
      [] p = "Q" -> k.Q
      [] p = "P_temp" -> k.temporary.P
      [] p = "BQ_temp" -> k.temporary.BQ
      [] p = "xpredicted" -> k.temporary.predicted_x

Store(k, p, v) ==
    CASE p = "P" -> [k EXCEPT !.P = v]
      [] p = "x" -> [k EXCEPT !.x = v]
      [] p = "P_temp" -> [k EXCEPT !.temporary.P = v]
      [] p = "BQ_temp" -> [k EXCEPT !.temporary.BQ = v]
      [] p = "xpredicted" -> [k EXCEPT !.temporary.predicted_x = v]

Call(fn, a, b, c) == [fn |-> fn, a |-> a, b |-> b, c |-> c]

\* the filter after one primitive call; `scale` is the local lambda
Exec(k, call, scale) ==
    LET a == Deref(k, call.a)
        b == Deref(k, call.b)
        c == Deref(k, call.c)
    IN CASE call.fn = "matrix_mult_rowvector" ->
                Store(k, call.c, matrix_mult_rowvector(a, b, c))
         [] call.fn = "matrix_copy" ->
                Store(k, call.c, matrix_copy(a, c))
         [] call.fn = "matrix_mult" ->
                [Store(k, call.c, matrix_mult(a, b, c))
                    EXCEPT !.temporary.aux = matrix_mult_aux(b, @)]
         [] call.fn = "matrix_mult_transb" ->
                Store(k, call.c, matrix_mult_transb(a, b, c))
         [] call.fn = "matrix_multscale_transb" ->
                Store(k, call.c, matrix_multscale_transb(a, b, scale, c))
         [] call.fn = "matrix_multadd_transb" ->
                Store(k, call.c, matrix_multadd_transb(a, b, c))

\* L102 written in place: matrix_mult_rowvector(A, x, x)
Call_L102_InPlace == Call("matrix_mult_rowvector", "A", "x", "x")

Call_L102 == Call("matrix_mult_rowvector", "A", "x", "xpredicted")

\* matrix_copy has one source; it is named in both operand slots
Call_L103 == Call("matrix_copy", "xpredicted", "xpredicted", "x")

\* the parentheses forgotten: 1.0 / lambda * lambda
InvSquare_NoParens(l) == Rat(l.den * l.num, l.num * l.den)

\* lambda = 1.0 / (lambda * lambda)
InvSquare_L111(l) == Rat(l.den * l.den, l.num * l.num)

\* the operands of L114 swapped: temp = P*A
Call_L114_Swapped == Call("matrix_mult", "P", "A", "P_temp")

Call_L114 == Call("matrix_mult", "A", "P", "P_temp")

\* L115 given P instead of A as its second operand
Call_L115_WrongOperand == Call("matrix_multscale_transb", "P_temp", "P", "P")

Call_L115 == Call("matrix_multscale_transb", "P_temp", "A", "P")

\* if (kf->B.rows > 0)
HasInput_L118(k) == k.B.rows > 0

Call_L120 == Call("matrix_mult", "B", "Q", "BQ_temp")

\* L121 overwriting P instead of accumulating into it
Call_L121_Overwrite == Call("matrix_mult_transb", "BQ_temp", "B", "P")

Call_L121 == Call("matrix_multadd_transb", "BQ_temp", "B", "P")

\* the whole of kalman_predict, as the composition of its statements
kalman_predict(k, l) ==
    LET k1 == Exec(k, Call_L102, l)
        k2 == Exec(k1, Call_L103, l)
        f == InvSquare_L111(l)
        k3 == Exec(k2, Call_L114, f)
        k4 == Exec(k3, Call_L115, f)
    IN IF HasInput_L118(k4)
       THEN Exec(Exec(k4, Call_L120, f), Call_L121, f)
       ELSE k4

(***************************************************************************)
(* The states the driver can set up before its first call.                 *)
(***************************************************************************)
Lambdas == {Rat(1, d) : d \in 1..MaxDen}

Fill(len, v) == [idx \in 1..len |-> v]

Max(a, b) == IF a >= b THEN a ELSE b

\* a on the diagonal, s on the superdiagonal
ABuf(n, a, s) ==
    [idx \in 1..(n * n) |->
        IF RowOf(idx, n) = ColOf(idx, n) THEN a
        ELSE IF ColOf(idx, n) = RowOf(idx, n) + 1 THEN s ELSE 0]

\* p on the diagonal, o elsewhere (positive semi-definite for 0 <= o <= p)
PBuf(n, p, o) ==
    [idx \in 1..(n * n) |-> IF RowOf(idx, n) = ColOf(idx, n) THEN p ELSE o]

XBuf(n, x0) == [idx \in 1..n |-> idx - x0]

\* the n x m identity pattern, or all ones
BBuf(n, m, ones) ==
    [idx \in 1..(n * m) |-> IF ones \/ RowOf(idx, m) = ColOf(idx, m) THEN 1 ELSE 0]

\* q on the diagonal, up above it, lo below it
QBuf(m, q, up, lo) ==
    [idx \in 1..(m * m) |->
        IF RowOf(idx, m) = ColOf(idx, m) THEN q
        ELSE IF RowOf(idx, m) < ColOf(idx, m) THEN up ELSE lo]

\* the first k state variables are measured
HBuf(k, n) ==
    [idx \in 1..(k * n) |-> IF RowOf(idx, n) = ColOf(idx, n) THEN 1 ELSE 0]

\* unit measurement noise
RBuf(k) ==
    [idx \in 1..(k * k) |-> IF RowOf(idx, k) = ColOf(idx, k) THEN 1 ELSE 0]

NoCall == [op |-> "none", kf |-> <<>>, kfm |-> <<>>, lambda |-> RatOne]

Init ==
    /\ \E n \in 0..MaxStates, m \in 0..MaxInputs :
        \E a \in 0..1, s \in 0..1, p \in 0..1, o \in 0..1, x0 \in 0..1,
           ones \in BOOLEAN, q \in 0..1, up \in 0..1, lo \in 0..1, g \in 0..1 :
            /\ o <= p
            /\ lo <= up
            /\ kf = kalman_filter_initialize(n, m,
                        ABuf(n, a, s), XBuf(n, x0), BBuf(n, m, ones), Fill(m, 0),
                        PBuf(n, p, o), QBuf(m, q, up, lo),
                        Fill(Max(n, m), g), Fill(n, g), Fill(n * n, g), Fill(n * m, g))
            /\ \E k \in 1..MaxMeasurements :
                kfm = kalman_measurement_initialize(n, k,
                        HBuf(k, n), Fill(k, 2), RBuf(k),
                        Fill(k, 0), Fill(k * k, 0), Fill(n * k, 0))
    /\ pc = "idle"
    /\ lambda = RatOne
    /\ old = NoCall
    /\ ops = <<>>
    /\ calls = 0

(***************************************************************************)
(* The driver calls kalman_predict; the call runs statement by statement.  *)
(***************************************************************************)
PredictCall ==
    /\ pc = "idle"
    /\ calls < MaxCalls
    /\ \E l \in Lambdas :
        /\ lambda' = l
        /\ old' = [op |-> "predict", kf |-> kf, kfm |-> kfm, lambda |-> l]
    /\ pc' = "L102"
    /\ ops' = <<>>
    /\ calls' = calls + 1
    /\ UNCHANGED <<kf, kfm>>

\* one primitive call of kalman_predict, run to completion
Run(call) ==
    /\ kf' = Exec(kf, call, lambda)
    /\ ops' = Append(ops, call)
    /\ UNCHANGED <<kfm, lambda, old, calls>>

Predict_L102 ==
    /\ pc = "L102"
    /\ Run(Call_L102)
    /\ pc' = "L103"

Predict_L103 ==
    /\ pc = "L103"
    /\ Run(Call_L103)
    /\ pc' = "L111"

Predict_L111 ==
    /\ pc = "L111"
    /\ lambda' = InvSquare_L111(lambda)
    /\ pc' = "L114"
    /\ UNCHANGED <<kf, kfm, old, ops, calls>>

Predict_L114 ==
    /\ pc = "L114"
    /\ Run(Call_L114)
    /\ pc' = "L115"

Predict_L115 ==
    /\ pc = "L115"
    /\ Run(Call_L115)
    /\ pc' = "L118"

Predict_L118 ==
    /\ pc = "L118"
    /\ pc' = IF HasInput_L118(kf) THEN "L120" ELSE "idle"
    /\ UNCHANGED <<kf, kfm, lambda, old, ops, calls>>

Predict_L120 ==
    /\ pc = "L120"
    /\ Run(Call_L120)
    /\ pc' = "L121"

Predict_L121 ==
    /\ pc = "L121"
    /\ Run(Call_L121)
    /\ pc' = "idle"

(***************************************************************************)
(* kalman_correct.  Its first statement is assert(0): with assertions      *)
(* enabled (kalman.c does not define NDEBUG) the call aborts there.  Were  *)
(* the asserted expression to hold, L152 and L153 would compute the        *)
(* innovation and L156 would then write through the uninitialized local    *)
(* matrix `temp`, which is undefined behaviour.                            *)
(***************************************************************************)
CorrectCall ==
    /\ pc = "idle"
    /\ calls < MaxCalls
    /\ old' = [op |-> "correct", kf |-> kf, kfm |-> kfm, lambda |-> RatOne]
    /\ pc' = "L132"
    /\ ops' = <<>>
    /\ calls' = calls + 1
    /\ UNCHANGED <<kf, kfm, lambda>>

\* the assertion compiled out
AssertedExpr_Disabled == TRUE

\* the expression of assert(0)
AssertedExpr_L132 == FALSE

Call_L152 == Call("matrix_mult_rowvector", "H", "x", "y")

Call_L153 == Call("matrix_sub_inplace_b", "z", "y", "y")

Correct_L132 ==
    /\ pc = "L132"
    /\ IF AssertedExpr_L132
       THEN /\ kfm' = [kfm EXCEPT !.y =
                        matrix_sub_inplace_b(kfm.z, matrix_mult_rowvector(kfm.H, kf.x, @))]
            /\ ops' = ops \o <<Call_L152, Call_L153>>
            /\ pc' = "L156_undefined"
       ELSE /\ pc' = "aborted"
            /\ UNCHANGED <<kfm, ops>>
    /\ UNCHANGED <<kf, lambda, old, calls>>

Next ==
    \/ PredictCall
    \/ Predict_L102
    \/ Predict_L103
    \/ Predict_L111
    \/ Predict_L114
    \/ Predict_L115
    \/ Predict_L118
    \/ Predict_L120
    \/ Predict_L121
    \/ CorrectCall
    \/ Correct_L132

Spec == Init /\ [][Next]_vars

(***************************************************************************)
(* Vocabulary of the properties.  The closed forms below are written as    *)
(* explicit sums over the entries, independently of the primitives.        *)
(***************************************************************************)
Returned(op) == pc = "idle" /\ old.op = op

\* control has left kalman_correct, by whatever exit, for a filter with states
CorrectOver == old.op = "correct" /\ pc # "L132" /\ old.kf.x.rows >= 1

Rows(M) == 1..M.rows

Cols(M) == 1..M.cols

Symmetric(M) == \A i \in Rows(M), j \in Rows(M) : At(M, i, j) = At(M, j, i)

Trace(M) == SumSeq([i \in Rows(M) |-> At(M, i, i)])

RemoveAt(s, t) == [k \in 1..(Len(s) - 1) |-> IF k < t THEN s[k] ELSE s[k + 1]]

\* determinant of the submatrix of M on rows rs and columns cs
RECURSIVE Det(_, _, _)
Det(M, rs, cs) ==
    IF Len(rs) = 0 THEN 1
    ELSE SumSeq([t \in 1..Len(cs) |->
            (IF t % 2 = 1 THEN 1 ELSE -1) * At(M, rs[1], cs[t])
                * Det(M, Tail(rs), RemoveAt(cs, t))])

Ascending(S) ==
    [k \in 1..Cardinality(S) |->
        CHOOSE e \in S : Cardinality({y \in S : y < e}) = k - 1]

\* symmetric with every principal minor non-negative
IsPSD(M) ==
    /\ Symmetric(M)
    /\ \A S \in SUBSET Rows(M) : Det(M, Ascending(S), Ascending(S)) >= 0

\* symmetric with every leading principal minor positive
IsPD(M) ==
    /\ Symmetric(M)
    /\ \A k \in Rows(M) : Det(M, Ascending(1..k), Ascending(1..k)) > 0

\* (A x)[i]
RefAx(k, i) == SumSeq([c \in Cols(k.A) |-> At(k.A, i, c) * At(k.x, c, 1)])

\* (A P)[i,j]
RefAP(k, i, j) == SumSeq([c \in Cols(k.A) |-> At(k.A, i, c) * At(k.P, c, j)])

\* (A P A')[i,j]
RefAPAt(k, i, j) ==
    SumSeq([c \in Cols(k.A) |->
        SumSeq([d \in Cols(k.A) |-> At(k.A, i, c) * At(k.P, c, d) * At(k.A, j, d)])])

\* (B Q B')[i,j]
RefBQBt(k, i, j) ==
    SumSeq([c \in Cols(k.B) |->
        SumSeq([d \in Cols(k.B) |-> At(k.B, i, c) * At(k.Q, c, d) * At(k.B, j, d)])])

\* v / lambda^2
Inflate(v, l) == (v * l.den * l.den) \div (l.num * l.num)

\* the model does not let a call change the process model
ModelKept == kf.A = old.kf.A /\ kf.B = old.kf.B /\ kf.Q = old.kf.Q

(***************************************************************************)
(* C1: with B of at least one row, one kalman_predict call leaves          *)
(* x = A x_old and P = (A P_old A') / lambda^2 + B Q B'.                   *)
(***************************************************************************)
C1_PredictFormula ==
    (Returned("predict") /\ old.kf.B.rows >= 1) =>
        /\ ModelKept
        /\ \A i \in Rows(kf.x) : At(kf.x, i, 1) = RefAx(old.kf, i)
        /\ \A i \in Rows(kf.P), j \in Cols(kf.P) :
              At(kf.P, i, j) =
                  Inflate(RefAPAt(old.kf, i, j), old.lambda) + RefBQBt(old.kf, i, j)

\* a predict with lambda < 1 in which both terms of P and the state count
C1_Witness ==
    /\ Returned("predict")
    /\ old.kf.B.rows >= 2
    /\ old.kf.B.cols >= 1
    /\ RatLess(old.lambda, RatOne)
    /\ \E i \in Rows(kf.P), j \in Cols(kf.P) :
          i # j /\ RefAPAt(old.kf, i, j) > 0 /\ RefBQBt(old.kf, i, j) > 0
    /\ kf.x # old.kf.x

(***************************************************************************)
(* C2: with num_inputs = 0, num_states >= 1 and lambda = 1, predict leaves *)
(* P = A P_old A' and x = A x_old exactly, whatever the scratch buffers    *)
(* held before.                                                            *)
(***************************************************************************)
C2_NoInputIdentity ==
    (/\ Returned("predict")
     /\ old.kf.B.cols = 0
     /\ old.kf.B.rows >= 1
     /\ old.lambda = RatOne) =>
        /\ \A i \in Rows(kf.x) : At(kf.x, i, 1) = RefAx(old.kf, i)
        /\ \A i \in Rows(kf.P), j \in Cols(kf.P) :
              At(kf.P, i, j) = RefAPAt(old.kf, i, j)

\* such a call that started with used scratch buffers and changed P
C2_Witness ==
    /\ Returned("predict")
    /\ old.kf.B.cols = 0
    /\ old.kf.B.rows >= 2
    /\ old.lambda = RatOne
    /\ \E idx \in DOMAIN old.kf.temporary.P.data : old.kf.temporary.P.data[idx] # 0
    /\ \E idx \in DOMAIN old.kf.temporary.predicted_x.data :
          old.kf.temporary.predicted_x.data[idx] # 0
    /\ kf.P # old.kf.P
    /\ kf.x # old.kf.x

(***************************************************************************)
(* C5, as claimed: if P is symmetric positive semi-definite before         *)
(* predict, then for any A, B and Q it is symmetric after.                 *)
(***************************************************************************)
C5_SymmetryAnyQ ==
    (Returned("predict") /\ IsPSD(old.kf.P)) => Symmetric(kf.P)

(***************************************************************************)
(* C5, amended: if P is symmetric before predict and Q is symmetric, then  *)
(* P is symmetric after; as a call leaves Q alone, this carries through    *)
(* any sequence of predict calls.                                          *)
(***************************************************************************)
C5_SymmetrySymmetricQ ==
    (Returned("predict") /\ Symmetric(old.kf.P) /\ Symmetric(old.kf.Q)) =>
        /\ Symmetric(kf.P)
        /\ kf.Q = old.kf.Q

\* a second predict in a row, A not symmetric, Q symmetric and not diagonal
C5_Witness ==
    /\ Returned("predict")
    /\ calls = 2
    /\ IsPSD(old.kf.P)
    /\ Symmetric(old.kf.Q)
    /\ ~Symmetric(old.kf.A)
    /\ \E i \in Rows(kf.Q), j \in Cols(kf.Q) : i # j /\ At(kf.Q, i, j) # 0
    /\ RatLess(old.lambda, RatOne)
    /\ \E i \in Rows(kf.P), j \in Cols(kf.P) : i # j /\ At(kf.P, i, j) # 0
    /\ Symmetric(kf.P)

(***************************************************************************)
(* C6, as claimed: for lambda1 < lambda2, every diagonal entry of the      *)
(* post-predict P under lambda1 is strictly greater than under lambda2.    *)
(***************************************************************************)
C6_StrictlyGreater ==
    Returned("predict") =>
        \A l2 \in Lambdas : RatLess(old.lambda, l2) =>
            \A i \in Rows(kf.P) :
                At(kf.P, i, i) > At(kalman_predict(old.kf, l2).P, i, i)

(***************************************************************************)
(* C6, amended: for lambda1 < lambda2, a diagonal entry of the             *)
(* post-predict P under lambda1 is strictly greater than under lambda2     *)
(* where the same diagonal entry of A P A' is positive, and equal where    *)
(* that entry is zero.                                                     *)
(***************************************************************************)
C6_GreaterWherePositive ==
    Returned("predict") =>
        \A l2 \in Lambdas : RatLess(old.lambda, l2) =>
            \A i \in Rows(kf.P) :
                LET other == At(kalman_predict(old.kf, l2).P, i, i)
                IN /\ RefAPAt(old.kf, i, i) > 0 => At(kf.P, i, i) > other
                   /\ RefAPAt(old.kf, i, i) = 0 => At(kf.P, i, i) = other

\* a predict with the smaller factor, one diagonal entry inflated, one not
C6_Witness ==
    /\ Returned("predict")
    /\ \E l2 \in Lambdas : RatLess(old.lambda, l2)
    /\ \E i \in Rows(kf.P) : RefAPAt(old.kf, i, i) > 0
    /\ \E i \in Rows(kf.P) : RefAPAt(old.kf, i, i) = 0
    /\ \E i \in Rows(kf.P) : RefBQBt(old.kf, i, i) > 0

(***************************************************************************)
(* C9: within a kalman_predict call no primitive is given a destination    *)
(* that is also one of its operands; x is written only by the copy from    *)
(* xpredicted, after A x_old is complete there; P is first written only    *)
(* after A P_old is complete in P_temp; and no later call takes the        *)
(* rewritten x or P as an operand.                                         *)
(***************************************************************************)
Wrote(p) == \E i \in DOMAIN ops : ops[i].c = p

C9_NonAliasingOrder ==
    old.op = "predict" =>
        /\ \A i \in DOMAIN ops : ops[i].c \notin {ops[i].a, ops[i].b}
        /\ \A i \in DOMAIN ops : ops[i].c = "x" =>
              /\ ops[i].fn = "matrix_copy" /\ ops[i].a = "xpredicted"
              /\ \E j \in 1..(i - 1) :
                    ops[j] = Call("matrix_mult_rowvector", "A", "x", "xpredicted")
        /\ \A i \in DOMAIN ops : ops[i].c = "P" =>
              \E j \in 1..(i - 1) :
                    /\ ops[j] = Call("matrix_mult", "A", "P", "P_temp")
                    /\ \A h \in 1..j : ops[h].c # "P"
        /\ \A i \in DOMAIN ops, j \in DOMAIN ops :
              (i < j /\ ops[i].c \in {"x", "P"}) => ops[i].c \notin {ops[j].a, ops[j].b}
        /\ ~Wrote("x") => kf.x = old.kf.x
        /\ ~Wrote("P") => kf.P = old.kf.P
        /\ pc = "L103" =>
              \A i \in Rows(kf.x) :
                  At(kf.temporary.predicted_x, i, 1) = RefAx(old.kf, i)
        /\ Wrote("x") => \A i \in Rows(kf.x) : At(kf.x, i, 1) = RefAx(old.kf, i)
        /\ pc = "L115" =>
              \A i \in Rows(kf.P), j \in Cols(kf.P) :
                  At(kf.temporary.P, i, j) = RefAP(old.kf, i, j)

\* a complete call through all six primitives that changed x and P
C9_Witness ==
    /\ Returned("predict")
    /\ Len(ops) = 6
    /\ kf.x # old.kf.x
    /\ kf.P # old.kf.P
    /\ kf.temporary.predicted_x # old.kf.temporary.predicted_x

(***************************************************************************)
(* C10, as claimed: predict runs the B Q B' step only if an input model is *)
(* present; with num_inputs = 0 neither the B Q multiplication nor the     *)
(* accumulation into P is invoked and BQ_temp is not written.  (The guard  *)
(* at L118 reads B.rows, which is num_states.)                             *)
(***************************************************************************)
C10_SkippedWithoutInputs ==
    (Returned("predict") /\ old.kf.B.cols = 0) =>
        \A i \in DOMAIN ops :
            ops[i].c # "BQ_temp" /\ ops[i].fn # "matrix_multadd_transb"

(***************************************************************************)
(* C8: every kalman_correct call stops at the assertion before any         *)
(* primitive has read or written filter or measurement data; no call       *)
(* completes, and x, P, y, S and K keep their values.                      *)
(***************************************************************************)
C8_CorrectNeverRuns ==
    old.op = "correct" =>
        /\ pc \in {"L132", "aborted"}
        /\ ops = <<>>
        /\ kf = old.kf
        /\ kfm = old.kfm

\* a call that was made after a predict and has hit the assertion
C8_Witness ==
    /\ pc = "aborted"
    /\ old.op = "correct"
    /\ calls = 2
    /\ \E idx \in DOMAIN kf.P.data : kf.P.data[idx] # 0

(***************************************************************************)
(* The measurement update as documented (L147-L188), over the values at    *)
(* the call's entry.                                                       *)
(***************************************************************************)
\* (H x)[i]
RefHx(k, m, i) == SumSeq([c \in Cols(m.H) |-> At(m.H, i, c) * At(k.x, c, 1)])

\* (H P)[i,j]
RefHP(k, m, i, j) == SumSeq([c \in Cols(m.H) |-> At(m.H, i, c) * At(k.P, c, j)])

\* (P H')[i,j]
RefPHt(k, m, i, j) == SumSeq([c \in Cols(k.P) |-> At(k.P, i, c) * At(m.H, j, c)])

\* S = H P H' + R
RefS(k, m) ==
    [rows |-> m.H.rows, cols |-> m.H.rows,
     data |-> [idx \in 1..(m.H.rows * m.H.rows) |->
                SumSeq([c \in Cols(m.H) |->
                    RefHP(k, m, RowOf(idx, m.H.rows), c) * At(m.H, ColOf(idx, m.H.rows), c)])
                    + At(m.R, RowOf(idx, m.H.rows), ColOf(idx, m.H.rows))]]

(***************************************************************************)
(* C3, as claimed: with a positive definite residual covariance, one       *)
(* kalman_correct call returns with y = z - H x_old, K = P_old H' S^-1     *)
(* (stated as K S = P_old H'), x = x_old + K y and P = P_old - K (H P_old).*)
(***************************************************************************)
C3_CorrectReturnsUpdate ==
    (CorrectOver /\ IsPD(RefS(old.kf, old.kfm))) =>
        /\ pc = "returned"
        /\ \A i \in Rows(kfm.y) :
              At(kfm.y, i, 1) = At(old.kfm.z, i, 1) - RefHx(old.kf, old.kfm, i)
        /\ \A i \in Rows(kfm.K), j \in Cols(kfm.K) :
              SumSeq([c \in Cols(kfm.K) |->
                        At(kfm.K, i, c) * At(RefS(old.kf, old.kfm), c, j)])
                  = RefPHt(old.kf, old.kfm, i, j)
        /\ \A i \in Rows(kf.x) :
              At(kf.x, i, 1) = At(old.kf.x, i, 1)
                  + SumSeq([c \in Cols(kfm.K) |-> At(kfm.K, i, c) * At(kfm.y, c, 1)])
        /\ \A i \in Rows(kf.P), j \in Cols(kf.P) :
              At(kf.P, i, j) = At(old.kf.P, i, j)
                  - SumSeq([c \in Cols(kfm.K) |->
                        At(kfm.K, i, c) * RefHP(old.kf, old.kfm, c, j)])

(***************************************************************************)
(* C4, as claimed: once kalman_correct is over, S holds H P_old H' + R,    *)
(* symmetric whenever P_old and R are.                                     *)
(***************************************************************************)
C4_ResidualCovarianceStored ==
    CorrectOver =>
        /\ kfm.S = RefS(old.kf, old.kfm)
        /\ (Symmetric(old.kf.P) /\ Symmetric(old.kfm.R)) => Symmetric(kfm.S)

====
